---------------------------- MODULE Spec2Model ----------------------------
(***************************************************************************)
(* A model of the template path resolution and document cache of the      *)
(* twiggy language server:                                                 *)
(*   packages/language-server/src/documents/DocumentCache.ts               *)
(*   packages/language-server/src/utils/paths/normalizeTemplatePath.ts     *)
(*                                                                         *)
(* Strings are sequences of one-character strings, so that prefix tests,   *)
(* slicing, separator replacement and the path algebra of node's "path"    *)
(* module (POSIX flavour) are computed and not assumed.  The empty         *)
(* sequence stands for both "" and undefined where the code only tests    *)
(* truthiness (composerRoot / frameworkRoot).                              *)
(***************************************************************************)
EXTENDS Integers, Sequences, FiniteSets, TLC

VARIABLES
    environment,              \* #environment.templateMappings
    typeResolver,             \* #typeResolver
    composerRoot,             \* #composerRoot
    additionalMappings,       \* #additionalMappings
    normalizedMappingsCache,  \* #normalizedMappingsCache: <<>> is null, <<table>> a cached table
    documents,                \* documents: Map<DocumentUri, Document>, uri -> instance
    heap,                     \* the Document instances ever constructed, by identity
    nextId,                   \* identity of the next Document constructed
    files,                    \* the template files present on disk
    dirs,                     \* the directories present on disk
    tasks,                    \* the async calls in flight, each parked at an await
    last,                     \* the call that has just returned or read the mapping table,
                              \* until its caller goes on; NoStep otherwise
    pinned,                   \* per canonical client uri: the (instance, text) a completed get(u, t) returned
    evicted,                  \* per location: the instance the latest remove evicted, until a get follows
    tableReads,               \* the tables read since the last configure (the first and the latest)
    applied,                  \* the application of a path function just made, with its result
    handlers,                 \* the onDidChangeConfiguration handlers, each idle or awaiting its environment
    notified                  \* the settings of the most recent configuration notification

vars == <<environment, typeResolver, composerRoot, additionalMappings,
          normalizedMappingsCache, documents, heap, nextId, files, dirs,
          tasks, last, pinned, evicted, tableReads, applied, handlers, notified>>

-----------------------------------------------------------------------------
(* Strings *)

StartsWith(s, p) == Len(p) <= Len(s) /\ SubSeq(s, 1, Len(p)) = p

\* String.prototype.slice(n)
Slice(s, n) == SubSeq(s, n + 1, Len(s))

\* a replace that leaves the backslashes
ReplaceNothing(s) == s

\* directory.replace(/\\/g, '/')
ReplaceBackslashes(s) == [i \in 1..Len(s) |-> IF s[i] = "\\" THEN "/" ELSE s[i]]

RECURSIVE SplitAcc(_, _, _)
SplitAcc(s, cur, acc) ==
    IF s = <<>> THEN Append(acc, cur)
    ELSE IF Head(s) = "/" THEN SplitAcc(Tail(s), <<>>, Append(acc, cur))
    ELSE SplitAcc(Tail(s), Append(cur, Head(s)), acc)

\* s.split('/')
SplitSlash(s) == SplitAcc(s, <<>>, <<>>)

RECURSIVE JoinSlash(_)
\* segments.join('/')
JoinSlash(segs) ==
    IF segs = <<>> THEN <<>>
    ELSE IF Len(segs) = 1 THEN segs[1]
    ELSE segs[1] \o <<"/">> \o JoinSlash(Tail(segs))

RECURSIVE NormalizeSegs(_, _, _)
\* node path: normalizeString, on the segments of the path
NormalizeSegs(segs, res, allowAboveRoot) ==
    IF segs = <<>> THEN res
    ELSE LET seg == Head(segs) rest == Tail(segs) IN
         IF seg = <<>> \/ seg = <<".">> THEN NormalizeSegs(rest, res, allowAboveRoot)
         ELSE IF seg = <<".", ".">> THEN
              IF res # <<>> /\ res[Len(res)] # <<".", ".">>
              THEN NormalizeSegs(rest, SubSeq(res, 1, Len(res) - 1), allowAboveRoot)
              ELSE IF allowAboveRoot
              THEN NormalizeSegs(rest, Append(res, seg), allowAboveRoot)
              ELSE NormalizeSegs(rest, res, allowAboveRoot)
         ELSE NormalizeSegs(rest, Append(res, seg), allowAboveRoot)

\* path.isAbsolute (posix)
isAbsolute(p) == Len(p) > 0 /\ p[1] = "/"

\* path.normalize (posix)
PathNormalize(p) ==
    IF p = <<>> THEN <<".">>
    ELSE LET abs == isAbsolute(p)
             trailing == p[Len(p)] = "/"
             body == JoinSlash(NormalizeSegs(SplitSlash(p), <<>>, ~abs))
         IN  IF body = <<>>
             THEN (IF abs THEN <<"/">> ELSE IF trailing THEN <<".", "/">> ELSE <<".">>)
             ELSE (IF abs THEN <<"/">> ELSE <<>>) \o body \o (IF trailing THEN <<"/">> ELSE <<>>)

RECURSIVE JoinArgs(_)
JoinArgs(args) ==
    IF args = <<>> THEN <<>>
    ELSE IF Head(args) = <<>> THEN JoinArgs(Tail(args))
    ELSE LET rest == JoinArgs(Tail(args)) IN
         IF rest = <<>> THEN Head(args) ELSE Head(args) \o <<"/">> \o rest

\* path.join (posix): the non-empty arguments joined by '/', then normalized
PathJoin(args) ==
    LET joined == JoinArgs(args) IN
    IF joined = <<>> THEN <<".">> ELSE PathNormalize(joined)

RECURSIVE ResolveArgs(_, _)
\* right to left, until the accumulated path is absolute
ResolveArgs(args, acc) ==
    IF isAbsolute(acc) \/ args = <<>> THEN acc
    ELSE LET a == args[Len(args)] front == SubSeq(args, 1, Len(args) - 1) IN
         IF a = <<>> THEN ResolveArgs(front, acc)
         ELSE ResolveArgs(front, IF acc = <<>> THEN a ELSE a \o <<"/">> \o acc)

\* path.resolve (posix); every call in the code starts from the absolute workspace folder
PathResolve(args) ==
    LET raw == ResolveArgs(args, <<>>)
        body == JoinSlash(NormalizeSegs(SplitSlash(raw), <<>>, ~isAbsolute(raw)))
    IN  IF isAbsolute(raw) THEN <<"/">> \o body ELSE body

RECURSIVE CommonLen(_, _)
CommonLen(a, b) ==
    IF a = <<>> \/ b = <<>> \/ Head(a) # Head(b) THEN 0
    ELSE 1 + CommonLen(Tail(a), Tail(b))

\* a relative that returns the target as it is
PathRelativeKeeps(from, to) == to

\* path.relative (posix) of two absolute paths
PathRelative(from, to) ==
    LET f == NormalizeSegs(SplitSlash(from), <<>>, FALSE)
        t == NormalizeSegs(SplitSlash(to), <<>>, FALSE)
        n == CommonLen(f, t)
        ups == [i \in 1..(Len(f) - n) |-> <<".", ".">>]
    IN  JoinSlash(ups \o SubSeq(t, n + 1, Len(t)))


-----------------------------------------------------------------------------
(* The bounds of the model *)

MaxTasks == 2      \* async calls in flight at once
MaxDocs == 3       \* Document instances constructed in one run
MaxHandlers == 2   \* configuration handlers in flight at once
MaxImports == 3    \* length of a document's import list (resolveImport appends to it)

-----------------------------------------------------------------------------
(* The universe: one workspace, two template files, two client texts *)

workspaceFolderPath == <<"/", "w">>

NsF == <<"@", "F">>
RefFx == <<"@", "F", "/", "x">>      \* '@F/x'
RefX == <<"x">>                      \* 'x'
References == {RefFx, RefX}

F1 == <<"/", "w", "/", "t", "/", "x">>             \* /w/t/x
F3 == <<"/", "w", "/", "a", "/", "t", "/", "x">>   \* /w/a/t/x
FilePaths == {F1, F3}

\* the directories on disk: /w, /w/t, /w/a, /w/a/t, /w/a/s
Directories == { <<"/", "w">>, <<"/", "w", "/", "t">>, <<"/", "w", "/", "a">>,
                 <<"/", "w", "/", "a", "/", "t">>, <<"/", "w", "/", "a", "/", "s">> }

Mapping(ns, dir) == [namespace |-> ns, directory |-> dir]

\* what the framework environment reports (templateMappings); <<>> is EmptyEnvironment
FrameworkTable == << Mapping(<<>>, <<"s">>), Mapping(NsF, <<"t">>) >>
\* what the user configures (twiggy.templatePaths)
UserTable == << Mapping(NsF, <<"/", "a", "/", "t">>) >>
\* the configurations configure is called with: environment, composer root, user mappings
Configurations ==
    { [env |-> <<>>, root |-> <<>>, user |-> <<>>],
      [env |-> FrameworkTable, root |-> <<>>, user |-> UserTable],
      [env |-> FrameworkTable, root |-> <<"a">>, user |-> <<>>] }

NullText == "<null>"
ClientTexts == {"A", "B"}
\* the content of every template file on disk
DiskText(p) == "D"

Undefined == 0     \* the result of a call that returns undefined or void
Threw == -1        \* the result of a call that rejects

-----------------------------------------------------------------------------
(* utils/uri: a DocumentUri is a location and a spelling of it *)

NoUri == [path |-> <<>>, alt |-> FALSE]

\* toDocumentUri of a uri: the canonical spelling of the same location
toDocumentUri(u) == [path |-> u.path, alt |-> FALSE]
\* toDocumentUri of a filesystem path
PathToDocumentUri(p) == [path |-> p, alt |-> FALSE]
documentUriToFsPath(u) == u.path

U1 == PathToDocumentUri(F1)
U1alt == [path |-> F1, alt |-> TRUE]
ClientUris == {U1, U1alt}

-----------------------------------------------------------------------------
(* The filesystem primitives *)

\* an existsSync that finds everything
ExistsAlways(p) == TRUE

\* fs.existsSync
existsSync(p) == PathResolve(<<p>>) \in (dirs \cup files)

\* utils/files/resolveTemplate: the template file found for a probed path, <<>> when none
resolveTemplate(p) == IF p \in files THEN <<p>> ELSE <<>>

-----------------------------------------------------------------------------
(* utils/paths/normalizeTemplatePath.ts *)

\* a normalizer that, for a missing absolute directory, tries the framework root
\* before the workspace root
NormalizeDirectoryRootFirst(directory, ws, frameworkRoot) ==
    LET replaced == ReplaceBackslashes(directory)
        normalized == IF StartsWith(replaced, <<"/">>) /\ ~isAbsolute(replaced)
                      THEN Slice(replaced, 1) ELSE replaced
        withoutLeadingSlash == Slice(normalized, 1)
    IN
    IF isAbsolute(normalized) THEN
        IF existsSync(normalized) THEN
            [path |-> IF StartsWith(normalized, ws)
                      THEN PathRelative(ws, normalized) ELSE normalized,
             probes |-> 1]
        ELSE IF frameworkRoot # <<>>
                /\ existsSync(PathJoin(<<ws, frameworkRoot, withoutLeadingSlash>>))
        THEN [path |-> PathJoin(<<frameworkRoot, withoutLeadingSlash>>), probes |-> 2]
        ELSE [path |-> withoutLeadingSlash, probes |-> IF frameworkRoot # <<>> THEN 3 ELSE 2]
    ELSE IF frameworkRoot # <<>> /\ ~existsSync(PathJoin(<<ws, normalized>>)) THEN
        IF existsSync(PathJoin(<<ws, PathJoin(<<frameworkRoot, normalized>>)>>))
        THEN [path |-> PathJoin(<<frameworkRoot, normalized>>), probes |-> 2]
        ELSE [path |-> normalized, probes |-> 2]
    ELSE [path |-> normalized, probes |-> IF frameworkRoot # <<>> THEN 1 ELSE 0]

\* the directory returned, and the number of existsSync probes made on the way
NormalizeDirectory(directory, ws, frameworkRoot) ==
    LET replaced == ReplaceBackslashes(directory)
        normalized == IF StartsWith(replaced, <<"/">>) /\ ~isAbsolute(replaced)
                      THEN Slice(replaced, 1) ELSE replaced
        withoutLeadingSlash == Slice(normalized, 1)
    IN
    IF isAbsolute(normalized) THEN
        IF existsSync(normalized) THEN
            [path |-> IF StartsWith(normalized, ws)
                      THEN PathRelative(ws, normalized) ELSE normalized,
             probes |-> 1]
        ELSE IF existsSync(PathJoin(<<ws, withoutLeadingSlash>>)) THEN
            [path |-> withoutLeadingSlash, probes |-> 2]
        ELSE IF frameworkRoot # <<>> THEN
            IF existsSync(PathJoin(<<ws, frameworkRoot, withoutLeadingSlash>>))
            THEN [path |-> PathJoin(<<frameworkRoot, withoutLeadingSlash>>), probes |-> 3]
            ELSE [path |-> withoutLeadingSlash, probes |-> 3]
        ELSE [path |-> withoutLeadingSlash, probes |-> 2]
    ELSE IF frameworkRoot # <<>> /\ ~existsSync(PathJoin(<<ws, normalized>>)) THEN
        IF existsSync(PathJoin(<<ws, PathJoin(<<frameworkRoot, normalized>>)>>))
        THEN [path |-> PathJoin(<<frameworkRoot, normalized>>), probes |-> 2]
        ELSE [path |-> normalized, probes |-> 2]
    ELSE [path |-> normalized, probes |-> IF frameworkRoot # <<>> THEN 1 ELSE 0]

normalizeDirectoryPath(directory, ws, frameworkRoot) ==
    NormalizeDirectory(directory, ws, frameworkRoot).path


-----------------------------------------------------------------------------
(* parser and LocalSymbolCollector: the tree and the symbol table of a text.  *)
(* Both carry the text they were made from, so that a stale one shows.        *)

Import(name, path) == [name |-> name, path |-> path]

\* parser.parse(text)
Parse(text) == [src |-> text]

\* {% import %} tags at document level
DocumentImports(text) ==
    CASE text = "A" -> << Import("m", RefFx) >>
      [] text = "B" -> <<>>
      [] OTHER -> <<>>

\* whether the text has a macro/block scope (it spans position 1)
HasScope(text) == text \in {"A", "B"}

\* {% import %} tags inside that scope
ScopedImports(text) ==
    CASE text = "A" -> << Import("m", RefX) >>
      [] text = "B" -> << Import("m", RefFx), Import("s", <<>>) >>
      [] OTHER -> <<>>

\* new LocalSymbolCollector(tree.rootNode, typeResolver).collect()
Collect(tree) ==
    [src |-> tree.src, imports |-> DocumentImports(tree.src),
     hasScope |-> HasScope(tree.src), scoped |-> ScopedImports(tree.src)]

NoTree == Parse(NullText)
NoLocals == [src |-> NullText, imports |-> <<>>, hasScope |-> FALSE, scoped |-> <<>>]

NoPos == 0
Positions == {1}
ImportNames == {"_self", "m", "s"}

\* document.getScopeAt(pos)?.imports: <<>> when no scope spans pos, else <<imports>>
ScopeImportsAt(doc, pos) ==
    IF pos = 1 /\ doc.locals.hasScope THEN << doc.locals.scoped >> ELSE <<>>

\* new Document(uri)
NewDocument(uri) == [uri |-> uri, text |-> NullText, tree |-> NoTree, locals |-> NoLocals]
Blank == NewDocument(NoUri)

-----------------------------------------------------------------------------
(* Maps *)

EmptyMap == [k \in {} |-> 0]
MapSet(m, k, v) == [x \in (DOMAIN m) \cup {k} |-> IF x = k THEN v ELSE m[x]]
MapDelete(m, k) == [x \in (DOMAIN m) \ {k} |-> m[x]]
Range(m) == {m[k] : k \in DOMAIN m}

-----------------------------------------------------------------------------
(* An async call in flight *)

Tasks == 1..MaxTasks

IdleTask ==
    [pc |-> "idle",        \* idle | read | collect | probe1 | probe2: the await it is parked at
     op |-> "none",        \* the public method called
     uri |-> NoUri, text |-> NullText,              \* arguments of get / updateText / refresh
     ref |-> <<>>,                                  \* pathFromTwig
     name |-> "", pos |-> NoPos, argDoc |-> 0,      \* arguments of resolveImport
     doc |-> 0,            \* the Document setText is loading
     cont |-> "none",      \* who awaits setText: add | get | refresh
     pending |-> NoLocals, \* what the running collect() will resolve to
     maps |-> <<>>, idx |-> 0, path |-> <<>>,       \* the for-of loop of resolveByTwigPath
     read |-> FALSE,       \* whether the call has invoked readFile
     clean |-> TRUE,       \* no other call or filesystem change has acted since it began
     pin |-> <<>>,         \* pinned[uri] when it began
     removed |-> 0,        \* evicted[uri] when it began
     docs0 |-> EmptyMap]   \* documents when it began

CanonicalClientUris == {toDocumentUri(u) : u \in ClientUris}

NoStep ==
    [kind |-> "none", returned |-> FALSE, result |-> Undefined, call |-> IdleTask,
     tableRead |-> FALSE, probes |-> 0, table |-> <<>>]

Handlers == 1..MaxHandlers

\* no configuration notification has arrived
NoSettings == [framework |-> "none", symfonyConsolePath |-> <<>>, templatePaths |-> <<>>]

IdleHandler == [pc |-> "idle", config |-> NoSettings, frameworkRoot |-> <<>>]

\* no path function has been applied
NoApplication ==
    [fn |-> "none", arg |-> <<>>, root |-> <<>>, result |-> <<>>, probes |-> 0,
     again |-> <<>>, extracted |-> <<>>,
     namespace |-> <<>>, directory |-> <<>>, used |-> FALSE]

Init ==
    /\ environment = <<>>
    /\ typeResolver = "null"
    /\ composerRoot = <<>>
    /\ additionalMappings = <<>>
    /\ normalizedMappingsCache = <<>>
    /\ documents = EmptyMap
    /\ heap = [d \in 1..MaxDocs |-> Blank]
    /\ nextId = 1
    /\ files \in SUBSET FilePaths
    /\ dirs = Directories
    /\ tasks = [t \in Tasks |-> IdleTask]
    /\ last = NoStep
    /\ pinned = [u \in CanonicalClientUris |-> <<>>]
    /\ evicted = [u \in CanonicalClientUris |-> 0]
    /\ tableReads = <<>>
    /\ applied = NoApplication
    /\ handlers = [h \in Handlers |-> IdleHandler]
    /\ notified = NoSettings


-----------------------------------------------------------------------------
(* The effect of one step: every handler below runs from where it was        *)
(* resumed to its next await (or to its return) and yields one effect.        *)

Effect(kind, call) ==
    [kind |-> kind, ok |-> TRUE, task |-> IdleTask, call |-> call,
     returned |-> FALSE, result |-> Undefined,
     documents |-> documents, heap |-> heap, nextId |-> nextId,
     tableRead |-> FALSE, probes |-> 0, table |-> <<>>,
     cache |-> normalizedMappingsCache]

\* the call returns (or rejects, with result Threw)
Return(e, tk, result) ==
    [e EXCEPT !.task = IdleTask, !.returned = TRUE, !.result = result, !.call = tk]

\* the call is parked at an await
Park(e, tk) == [e EXCEPT !.task = tk, !.call = tk]

\* setText, up to its first await
SetTextBegin(e, tk, d, text) ==
    IF text # NullText
    THEN Park([e EXCEPT !.heap[d].text = text, !.heap[d].tree = Parse(text)],
              [tk EXCEPT !.pc = "collect", !.doc = d, !.pending = Collect(Parse(text))])
    ELSE Park(e, [tk EXCEPT !.pc = "read", !.doc = d, !.read = TRUE])

\* an add that stores the new Document in the map before loading it
AddStoresBeforeLoad(e, tk, uri, text) ==
    LET d == e.nextId
        fresh == [e EXCEPT !.nextId = d + 1,
                           !.heap = [x \in 1..MaxDocs |->
                                        IF x = d THEN NewDocument(toDocumentUri(uri))
                                        ELSE e.heap[x]],
                           !.documents = MapSet(e.documents, toDocumentUri(uri), d)]
    IN  IF d > MaxDocs THEN [e EXCEPT !.ok = FALSE]
        ELSE SetTextBegin(fresh, [tk EXCEPT !.cont = "add"], d, text)

\* add, up to the first await of its setText
AddBegin(e, tk, uri, text) ==
    LET d == e.nextId
        fresh == [e EXCEPT !.nextId = d + 1,
                           !.heap = [x \in 1..MaxDocs |->
                                        IF x = d THEN NewDocument(toDocumentUri(uri))
                                        ELSE e.heap[x]]]
    IN  IF d > MaxDocs THEN [e EXCEPT !.ok = FALSE]
        ELSE SetTextBegin(fresh, [tk EXCEPT !.cont = "add"], d, text)

\* the key get looks up: documents.get(documentUri)
GetKey(u) == u

\* get, up to its first await
GetBegin(op, u, text) ==
    LET tk == [IdleTask EXCEPT !.op = op, !.uri = u, !.text = text,
                               !.pin = IF u \in DOMAIN pinned THEN pinned[u] ELSE <<>>,
                               !.removed = evicted[toDocumentUri(u)],
                               !.docs0 = documents]
        e == Effect(op, tk)
    IN  IF GetKey(u) \in DOMAIN documents
        THEN LET d == documents[GetKey(u)] IN
             IF heap[d].text = NullText \/ text # NullText
             THEN SetTextBegin(e, [tk EXCEPT !.cont = "get"], d, text)
             ELSE Return(e, tk, d)
        ELSE AddBegin(e, tk, u, text)

\* a refresh that loads the way get does: cached text is kept, an uncached uri is added
RefreshAsGet(u) == GetBegin("refresh", u, NullText)

\* refresh, up to its first await
RefreshBegin(u) ==
    LET tk == [IdleTask EXCEPT !.op = "refresh", !.uri = u, !.docs0 = documents,
                               !.pin = IF toDocumentUri(u) \in DOMAIN pinned
                                       THEN pinned[toDocumentUri(u)] ELSE <<>>]
        e == Effect("refresh", tk)
        normalizedUri == toDocumentUri(u)
    IN  IF normalizedUri \in DOMAIN documents
        THEN SetTextBegin(e, [tk EXCEPT !.cont = "refresh"], documents[normalizedUri], NullText)
        ELSE Return(e, tk, Undefined)

\* a remove that deletes nothing
DocumentsKeptByRemove(u) == documents

\* a remove that clears the whole map
DocumentsClearedByRemove(u) == EmptyMap

\* documents.delete(toDocumentUri(documentUri))
DocumentsAfterRemove(u) == MapDelete(documents, toDocumentUri(u))

RemoveEffect(u) ==
    LET tk == [IdleTask EXCEPT !.op = "remove", !.uri = u, !.docs0 = documents] IN
    [Return(Effect("remove", tk), tk, Undefined) EXCEPT !.documents = DocumentsAfterRemove(u)]

\* readFile settles inside setText
ReadFileEffect(tk) ==
    LET e == Effect("readFileDone", tk)
        d == tk.doc
        fsPath == documentUriToFsPath(heap[d].uri)
        text == DiskText(fsPath)
    IN  IF fsPath \in files
        THEN Park([e EXCEPT !.heap[d].text = text, !.heap[d].tree = Parse(text)],
                  [tk EXCEPT !.pc = "collect", !.pending = Collect(Parse(text))])
        ELSE Return(e, tk, Threw)

\* collect() settles inside setText; then whoever awaited setText goes on
CollectEffect(tk) ==
    LET d == tk.doc
        e == [Effect("collectDone", tk) EXCEPT !.heap[d].locals = tk.pending]
    IN  CASE tk.cont = "add" ->
                Return([e EXCEPT !.documents = MapSet(documents, heap[d].uri, d)], tk, d)
          [] tk.cont = "get" -> Return(e, tk, d)
          [] OTHER -> Return(e, tk, Undefined)


-----------------------------------------------------------------------------
(* The effective template mappings *)

RECURSIVE IndexOf(_, _, _)
\* s.indexOf(pat), from position i on; 0 when pat does not occur
IndexOf(s, pat, i) ==
    IF i + Len(pat) - 1 > Len(s) THEN 0
    ELSE IF SubSeq(s, i, i + Len(pat) - 1) = pat THEN i
    ELSE IndexOf(s, pat, i + 1)

RECURSIVE ExpandReplacement(_, _, _)
\* the replacement string of s.replace: $$ is a dollar, $& the match and $' the text
\* after the match (the pattern for the text before the match, a dollar and a
\* backquote, occurs in no directory of this model)
ExpandReplacement(rep, matched, after) ==
    IF rep = <<>> THEN <<>>
    ELSE IF Len(rep) >= 2 /\ rep[1] = "$" /\ rep[2] \in {"$", "&", "'"}
    THEN (CASE rep[2] = "$" -> <<"$">>
            [] rep[2] = "&" -> matched
            [] OTHER -> after)
         \o ExpandReplacement(Slice(rep, 2), matched, after)
    ELSE << Head(rep) >> \o ExpandReplacement(Tail(rep), matched, after)

\* s.replace(pat, rep) with a string pattern: the first occurrence only
ReplaceFirst(s, pat, rep) ==
    LET i == IndexOf(s, pat, 1) IN
    IF i = 0 THEN s
    ELSE LET before == SubSeq(s, 1, i - 1)
             after == SubSeq(s, i + Len(pat), Len(s))
         IN  before \o ExpandReplacement(rep, pat, after) \o after

RECURSIVE SumProbes(_)
SumProbes(all) ==
    IF all = <<>> THEN 0
    ELSE NormalizeDirectory(Head(all).directory, workspaceFolderPath, composerRoot).probes
         + SumProbes(Tail(all))

\* a configure that keeps the table built for the configuration before
CacheKeptByConfigure == normalizedMappingsCache

\* what configure leaves in #normalizedMappingsCache: null
CacheAfterConfigure == <<>>

\* a getter that never answers from the cache
CacheNeverHit == FALSE

\* whether the getter answers from #normalizedMappingsCache
CacheHit == normalizedMappingsCache # <<>>

\* the table the getter builds when there is no cached one
BuildMappings ==
    LET allMappings == environment \o additionalMappings IN
    [i \in 1..Len(allMappings) |->
        Mapping(allMappings[i].namespace,
                normalizeDirectoryPath(allMappings[i].directory,
                                       workspaceFolderPath, composerRoot))]

\* get #effectiveTemplateMappings: the table, the probes it cost, the cache afterwards
effectiveTemplateMappings ==
    IF CacheHit
    THEN [table |-> normalizedMappingsCache[1], probes |-> 0,
          cache |-> normalizedMappingsCache]
    ELSE [table |-> BuildMappings,
          probes |-> SumProbes(environment \o additionalMappings),
          cache |-> << BuildMappings >>]

-----------------------------------------------------------------------------
(* resolveByTwigPath *)

IncludePath(m, pathFromTwig) ==
    IF m.namespace = <<>>
    THEN PathJoin(<<m.directory, pathFromTwig>>)
    ELSE ReplaceFirst(pathFromTwig, m.namespace, m.directory)

\* a loop that gives up at the first matching mapping that resolves to nothing
AfterMissGiveUp(tk) == Len(tk.maps) + 1

\* what the loop does with a mapping that matched and resolved to nothing: the next mapping
AfterMiss(tk) == tk.idx + 1

\* a loop that throws on an unresolved reference
ExhaustedThrows(e, tk) == Return(e, tk, Threw)

\* the loop has run out of mappings: return undefined
Exhausted(e, tk) == Return(e, tk, Undefined)

RECURSIVE ScanFrom(_, _, _)
\* the for-of loop from mapping i on, up to its next await or its return
ScanFrom(e, tk, i) ==
    IF i > Len(tk.maps) THEN Exhausted(e, tk)
    ELSE LET m == tk.maps[i] IN
         IF ~StartsWith(tk.ref, m.namespace) THEN ScanFrom(e, tk, i + 1)
         ELSE LET pathToTwig == PathResolve(<<workspaceFolderPath, IncludePath(m, tk.ref)>>)
                  documentUri == PathToDocumentUri(pathToTwig)
              IN  IF documentUri \in DOMAIN e.documents
                  THEN Return(e, tk, e.documents[documentUri])
                  ELSE Park(e, [tk EXCEPT !.pc = "probe1", !.idx = i, !.path = pathToTwig])

\* resolveByTwigPath, up to its first await
ResolveBegin(e, tk, pathFromTwig) ==
    LET r == effectiveTemplateMappings IN
    ScanFrom([e EXCEPT !.tableRead = TRUE, !.probes = r.probes, !.table = r.table,
                       !.cache = r.cache],
             [tk EXCEPT !.ref = pathFromTwig, !.maps = r.table], 1)

\* a retry that does not ask whether a framework root is configured
RetryWithoutRoot(tk, resolvedTemplate) == tk.pc = "probe1" /\ resolvedTemplate = <<>>

\* whether the framework-root location is tried: the workspace-root location
\* resolved to nothing and a framework root is configured
RetryUnderRoot(tk, resolvedTemplate) ==
    tk.pc = "probe1" /\ resolvedTemplate = <<>> /\ composerRoot # <<>>

\* resolveTemplate settles
ResolveTemplateEffect(tk) ==
    LET e == Effect("resolveTemplateDone", tk)
        resolvedTemplate == resolveTemplate(tk.path)
    IN  IF RetryUnderRoot(tk, resolvedTemplate)
        THEN LET pathToTwig == PathResolve(<<workspaceFolderPath, composerRoot,
                                             IncludePath(tk.maps[tk.idx], tk.ref)>>)
                 documentUri == PathToDocumentUri(pathToTwig)
             IN  IF documentUri \in DOMAIN documents
                 THEN Return(e, tk, documents[documentUri])
                 ELSE Park(e, [tk EXCEPT !.pc = "probe2", !.path = pathToTwig])
        ELSE IF resolvedTemplate # <<>>
        THEN AddBegin(e, tk, PathToDocumentUri(resolvedTemplate[1]), NullText)
        ELSE ScanFrom(e, tk, AfterMiss(tk))

RECURSIVE FindLastImport(_, _)
\* a find that returns the last import of that name
FindLastImport(imports, variableName) ==
    IF imports = <<>> THEN <<>>
    ELSE IF imports[Len(imports)].name = variableName THEN << imports[Len(imports)] >>
    ELSE FindLastImport(SubSeq(imports, 1, Len(imports) - 1), variableName)

RECURSIVE FindImport(_, _)
\* imports.find(imp => imp.name === variableName): <<>> when none
FindImport(imports, variableName) ==
    IF imports = <<>> THEN <<>>
    ELSE IF Head(imports).name = variableName THEN << Head(imports) >>
    ELSE FindImport(Tail(imports), variableName)

\* resolveImport, up to its first await
ResolveImportBegin(d, variableName, pos) ==
    LET tk == [IdleTask EXCEPT !.op = "resolveImport", !.argDoc = d,
                               !.name = variableName, !.pos = pos, !.docs0 = documents]
        e == Effect("resolveImport", tk)
        scopedImports == IF pos # NoPos THEN ScopeImportsAt(heap[d], pos) ELSE <<>>
        \* imports is document.locals.imports itself: push appends to the document's list
        imports == heap[d].locals.imports
                   \o (IF scopedImports # <<>> THEN scopedImports[1] ELSE <<>>)
        pushed == [e EXCEPT !.heap[d].locals.imports = imports,
                            !.ok = Len(imports) <= MaxImports]
        twigImport == FindImport(imports, variableName)
    IN  IF variableName = "_self" THEN Return(e, tk, d)
        ELSE IF twigImport = <<>> THEN Return(pushed, tk, Undefined)
        ELSE IF twigImport[1].path = <<>> THEN Return(pushed, tk, d)
        ELSE ResolveBegin(pushed, tk, twigImport[1].path)


-----------------------------------------------------------------------------
(* Committing a step *)

IsTextGet(call) == call.op \in {"get", "updateText"} /\ call.text # NullText

\* a step of refresh, remove or a get with explicit text acting on location c
Touches(call, c) ==
    /\ call.op \in {"refresh", "remove"} \/ IsTextGet(call)
    /\ toDocumentUri(call.uri) = c

\* a call in flight that another call or the filesystem has interfered with
Disturbed(tk) == [tk EXCEPT !.clean = FALSE, !.docs0 = EmptyMap]

\* the instances something still refers to after the step
Live(t, e) ==
    Range(e.documents)
    \cup {e.task.doc, e.task.argDoc, e.result}
    \cup UNION {{tasks[x].doc, tasks[x].argDoc} : x \in Tasks \ {t}}

Apply(t, e) ==
    LET changed == e.documents # documents \/ e.heap # heap \/ e.kind = "configure" IN
    /\ e.ok
    /\ documents' = e.documents
    \* an instance nothing refers to any more is garbage
    /\ heap' = [d \in 1..MaxDocs |-> IF d \in Live(t, e) THEN e.heap[d] ELSE Blank]
    /\ nextId' = e.nextId
    /\ normalizedMappingsCache' = e.cache
    /\ tasks' = [x \in Tasks |->
                    IF x = t THEN e.task
                    ELSE IF tasks[x].pc # "idle" /\ changed THEN Disturbed(tasks[x])
                    ELSE tasks[x]]
    /\ last' = IF e.returned \/ e.tableRead
               THEN [kind |-> e.kind, returned |-> e.returned, result |-> e.result,
                     call |-> e.call, tableRead |-> e.tableRead, probes |-> e.probes,
                     table |-> e.table]
               ELSE NoStep
    /\ pinned' = [u \in CanonicalClientUris |->
                    IF e.returned /\ IsTextGet(e.call) /\ e.call.uri = u /\ e.result > 0
                    THEN << [doc |-> e.result, text |-> e.call.text] >>
                    ELSE IF Touches(e.call, toDocumentUri(u)) THEN <<>>
                    ELSE pinned[u]]
    /\ evicted' = [c \in CanonicalClientUris |->
                    IF e.kind = "remove" /\ toDocumentUri(e.call.uri) = c
                    THEN (IF c \in DOMAIN documents THEN documents[c] ELSE evicted[c])
                    ELSE IF \/ e.kind \in {"get", "updateText"} /\ toDocumentUri(e.call.uri) = c
                            \/ c \in DOMAIN e.documents
                               /\ (c \notin DOMAIN documents \/ e.documents[c] # documents[c])
                    THEN 0
                    ELSE evicted[c]]
    /\ tableReads' = IF e.kind = "configure" THEN <<>>
                     ELSE IF ~e.tableRead THEN tableReads
                     ELSE IF tableReads = <<>> THEN << e.table >>
                     ELSE << tableReads[1], e.table >>
    /\ applied' = applied

\* a step runs once the caller of the call that returned before has gone on
Commit(t, effect) == last = NoStep /\ \E e \in {effect} : Apply(t, e)

\* the call slot a new call takes
FreeTask == CHOOSE t \in Tasks : tasks[t].pc = "idle" /\ \A x \in 1..(t - 1) : tasks[x].pc # "idle"
HasFreeTask == \E t \in Tasks : tasks[t].pc = "idle"

Cached == Range(documents)

-----------------------------------------------------------------------------
(* The calls *)

Get(u, text) ==
    /\ HasFreeTask
    /\ Commit(FreeTask, GetBegin("get", u, text))
    /\ UNCHANGED <<environment, typeResolver, composerRoot, additionalMappings, files, dirs,
                   handlers, notified>>

UpdateText(u, text) ==
    /\ HasFreeTask
    /\ Commit(FreeTask, GetBegin("updateText", u, text))
    /\ UNCHANGED <<environment, typeResolver, composerRoot, additionalMappings, files, dirs,
                   handlers, notified>>

Refresh(u) ==
    /\ HasFreeTask
    /\ Commit(FreeTask, RefreshBegin(u))
    /\ UNCHANGED <<environment, typeResolver, composerRoot, additionalMappings, files, dirs,
                   handlers, notified>>

Remove(u) ==
    /\ Commit(0, RemoveEffect(u))
    /\ UNCHANGED <<environment, typeResolver, composerRoot, additionalMappings, files, dirs,
                   handlers, notified>>

\* documentCache.configure(frameworkEnvironment, typeResolver, composerRoot, additionalMappings)
ConfigureCache(frameworkEnvironment, root, userMappings) ==
    /\ environment' = frameworkEnvironment
    /\ typeResolver' = IF frameworkEnvironment = <<>> THEN "null" ELSE "resolver"
    /\ composerRoot' = root
    /\ additionalMappings' = userMappings
    /\ Commit(0, [Effect("configure", [IdleTask EXCEPT !.op = "configure"])
                    EXCEPT !.returned = TRUE, !.cache = CacheAfterConfigure])
    /\ UNCHANGED <<files, dirs>>

Configure(frameworkEnvironment, root, userMappings) ==
    /\ ConfigureCache(frameworkEnvironment, root, userMappings)
    /\ UNCHANGED <<handlers, notified>>

ResolveByTwigPath(pathFromTwig) ==
    /\ HasFreeTask
    /\ LET tk == [IdleTask EXCEPT !.op = "resolveByTwigPath", !.docs0 = documents]
       IN  Commit(FreeTask, ResolveBegin(Effect("resolveByTwigPath", tk), tk, pathFromTwig))
    /\ UNCHANGED <<environment, typeResolver, composerRoot, additionalMappings, files, dirs,
                   handlers, notified>>

ResolveImport(d, variableName, pos) ==
    /\ HasFreeTask
    /\ Commit(FreeTask, ResolveImportBegin(d, variableName, pos))
    /\ UNCHANGED <<environment, typeResolver, composerRoot, additionalMappings, files, dirs,
                   handlers, notified>>

(* The awaits settling *)

ReadFileDone(t) ==
    /\ tasks[t].pc = "read"
    /\ Commit(t, ReadFileEffect(tasks[t]))
    /\ UNCHANGED <<environment, typeResolver, composerRoot, additionalMappings, files, dirs,
                   handlers, notified>>

CollectDone(t) ==
    /\ tasks[t].pc = "collect"
    /\ Commit(t, CollectEffect(tasks[t]))
    /\ UNCHANGED <<environment, typeResolver, composerRoot, additionalMappings, files, dirs,
                   handlers, notified>>

ResolveTemplateDone(t) ==
    /\ tasks[t].pc \in {"probe1", "probe2"}
    /\ Commit(t, ResolveTemplateEffect(tasks[t]))
    /\ UNCHANGED <<environment, typeResolver, composerRoot, additionalMappings, files, dirs,
                   handlers, notified>>

(* The filesystem changing under the server *)

FsStep ==
    /\ last = NoStep
    /\ tasks' = [x \in Tasks |-> IF tasks[x].pc # "idle" THEN Disturbed(tasks[x]) ELSE tasks[x]]
    /\ last' = NoStep
    /\ UNCHANGED <<environment, typeResolver, composerRoot, additionalMappings,
                   normalizedMappingsCache, documents, heap, nextId, pinned, evicted,
                   tableReads, applied, handlers, notified>>

FileCreated(p) == p \notin files /\ files' = files \cup {p} /\ dirs' = dirs /\ FsStep
FileDeleted(p) == p \in files /\ files' = files \ {p} /\ dirs' = dirs /\ FsStep

\* the caller of the call that returned goes on with its result
CallerResumes ==
    /\ last # NoStep
    /\ last' = NoStep
    /\ UNCHANGED <<environment, typeResolver, composerRoot, additionalMappings,
                   normalizedMappingsCache, documents, heap, nextId, files, dirs, tasks,
                   pinned, evicted, tableReads, applied, handlers, notified>>

\* no call is in flight
Quiet == \A t \in Tasks : tasks[t].pc = "idle"

Call ==
    \/ \E u \in ClientUris : Get(u, NullText)
    \/ \E u \in ClientUris, text \in ClientTexts : UpdateText(u, text)
    \/ \E u \in ClientUris : Refresh(u)
    \/ \E u \in ClientUris : Remove(u)
    \/ \E ref \in References : ResolveByTwigPath(ref)
    \/ \E d \in Cached, n \in ImportNames, pos \in Positions \cup {NoPos} : ResolveImport(d, n, pos)

Settle ==
    \/ \E t \in Tasks : ReadFileDone(t)
    \/ \E t \in Tasks : CollectDone(t)
    \/ \E t \in Tasks : ResolveTemplateDone(t)

(* One call at a time: a call begins when none is in flight.  The files      *)
(* change at any moment.                                                      *)
Next ==
    \/ Quiet /\ Call
    \/ Quiet /\ \E c \in Configurations : Configure(c.env, c.root, c.user)
    \/ Settle
    \/ CallerResumes
    \/ \E p \in FilePaths : FileCreated(p)
    \/ \E p \in FilePaths : FileDeleted(p)

Spec == Init /\ [][Next]_vars

(* Overlapping calls: a call begins while another is parked at an await.      *)
(* The configuration and the files stay as they are.                          *)
InitAsync ==
    /\ environment = FrameworkTable
    /\ typeResolver = "resolver"
    /\ composerRoot = <<>>
    /\ additionalMappings = UserTable
    /\ normalizedMappingsCache = <<>>
    /\ documents = EmptyMap
    /\ heap = [d \in 1..MaxDocs |-> Blank]
    /\ nextId = 1
    /\ files = FilePaths
    /\ dirs = Directories
    /\ tasks = [t \in Tasks |-> IdleTask]
    /\ last = NoStep
    /\ pinned = [u \in CanonicalClientUris |-> <<>>]
    /\ evicted = [u \in CanonicalClientUris |-> 0]
    /\ tableReads = <<>>
    /\ applied = NoApplication
    /\ handlers = [h \in Handlers |-> IdleHandler]
    /\ notified = NoSettings

NextAsync ==
    \/ \E text \in ClientTexts \cup {NullText} : Get(U1, text)
    \/ \E text \in ClientTexts : UpdateText(U1, text)
    \/ Refresh(U1)
    \/ Remove(U1)
    \/ ResolveByTwigPath(RefFx)
    \/ Settle
    \/ CallerResumes

SpecAsync == InitAsync /\ [][NextAsync]_vars

(* Resolving only: references are resolved one at a time while the            *)
(* configuration and the files change.  The configurations include the one    *)
(* the server applies first, the empty environment with the user's mappings.  *)
ConfigurationsOfResolve ==
    Configurations \cup { [env |-> <<>>, root |-> <<>>, user |-> UserTable] }

NextResolve ==
    \/ Quiet /\ \E ref \in References : ResolveByTwigPath(ref)
    \/ Quiet /\ \E c \in ConfigurationsOfResolve : Configure(c.env, c.root, c.user)
    \/ \E t \in Tasks : ReadFileDone(t)
    \/ \E t \in Tasks : CollectDone(t)
    \/ \E t \in Tasks : ResolveTemplateDone(t)
    \/ CallerResumes
    \/ \E p \in FilePaths : FileCreated(p)
    \/ \E p \in FilePaths : FileDeleted(p)

SpecResolve == Init /\ [][NextResolve]_vars

-----------------------------------------------------------------------------
(* The claims.  `last` is the step that has just run, so a claim about what   *)
(* a call returns is stated on the state right after the call's last step.    *)

\* a call of one of these methods has just returned
Returned(ops) == last.returned /\ last.call.op \in ops

\* C1: when get(u, t) has completed and since then no refresh(u), remove(u) or
\* get/updateText(u, text) has run, get(u) without text returns the same instance,
\* its text is still t, and the call has read no file.  Stated for the canonical
\* spelling of u.
C1_GetAfterGetWithText ==
    (/\ Returned({"get"})
     /\ last.call.text = NullText
     /\ last.call.uri \in CanonicalClientUris
     /\ last.call.pin # <<>>
     /\ pinned[last.call.uri] = last.call.pin)
    => /\ last.result = last.call.pin[1].doc
       /\ heap[last.result].text = last.call.pin[1].text
       /\ ~last.call.read

\* C2: a get(u) that begins after remove(u) evicted a cached document, with no other
\* call on u in between, constructs a new Document, loads it, and stores it under u:
\* the instance it returns is not the one removed.
C2_GetAfterRemoveIsFresh ==
    (/\ Returned({"get", "updateText"})
     /\ last.call.removed # 0
     /\ last.result # Threw)
    => LET d == last.result
           c == toDocumentUri(last.call.uri)
           text == IF last.call.text = NullText
                   THEN DiskText(documentUriToFsPath(c)) ELSE last.call.text
       IN  /\ d # last.call.removed
           /\ last.call.cont = "add" /\ last.call.doc = d
           /\ d \notin Range(last.call.docs0)
           /\ c \in DOMAIN documents /\ documents[c] = d
           /\ heap[d].uri = c
           /\ heap[d].text = text
           /\ heap[d].tree = Parse(text)
           /\ heap[d].locals = Collect(Parse(text))

C2_Witness ==
    /\ Returned({"get"})
    /\ last.call.removed # 0
    /\ last.result > 0
    /\ last.call.read

\* C3: the first read of the effective mapping table after configure is the framework
\* mappings followed by the user mappings, each directory normalized with the
\* framework root now configured; nothing of an earlier table is in it.
C3_FirstReadAfterConfigure ==
    (last.tableRead /\ Len(tableReads) = 1)
    => LET allMappings == environment \o additionalMappings IN
       /\ Len(last.table) = Len(allMappings)
       /\ \A i \in 1..Len(allMappings) :
            /\ last.table[i].namespace = allMappings[i].namespace
            /\ last.table[i].directory =
                 normalizeDirectoryPath(allMappings[i].directory,
                                        workspaceFolderPath, composerRoot)

C3_Witness ==
    /\ last.tableRead /\ Len(tableReads) = 1
    /\ composerRoot = <<"a">>
    /\ Len(last.table) = 2
    /\ last.table[1].directory = <<"a", "/", "s">>

\* C4: between two configure calls every read of the effective mapping table after
\* the first returns the list the first read returned and probes no file.
C4_LaterReadsAnswerFromCache ==
    (last.tableRead /\ Len(tableReads) = 2)
    => /\ last.probes = 0
       /\ last.table = tableReads[1]

C4_Witness ==
    /\ last.tableRead /\ Len(tableReads) = 2
    /\ composerRoot = <<"a">>
    /\ last.table # <<>>
    /\ last.kind = "resolveImport"

\* the locations resolveByTwigPath searches for one mapping: under the workspace
\* root and, when a framework root is configured, under the framework root
SearchedLocations(m, ref) ==
    { PathResolve(<<workspaceFolderPath, IncludePath(m, ref)>>) }
    \cup (IF composerRoot # <<>>
          THEN { PathResolve(<<workspaceFolderPath, composerRoot, IncludePath(m, ref)>>) }
          ELSE {})

\* the mappings of the call's table that match the reference and have a cached
\* document or a template file at a searched location
Hits(call) ==
    { i \in 1..Len(call.maps) :
        /\ StartsWith(call.ref, call.maps[i].namespace)
        /\ \E p \in SearchedLocations(call.maps[i], call.ref) :
              PathToDocumentUri(p) \in DOMAIN call.docs0 \/ p \in files }

FirstHit(call) == CHOOSE i \in Hits(call) : \A j \in Hits(call) : i <= j

\* the result is the document at a location of the first mapping that resolves
IsDocumentOfFirstHit(call, result) ==
    /\ result > 0
    /\ \E p \in SearchedLocations(call.maps[FirstHit(call)], call.ref) :
          heap[result].uri = PathToDocumentUri(p)

\* a resolveByTwigPath that ran with no other call and no file change in between
CleanResolve == Returned({"resolveByTwigPath"}) /\ last.call.clean

\* C5: resolveByTwigPath tries the mappings in table order and returns the document
\* of the first one that resolves; a matching mapping whose target is neither cached
\* nor on disk does not stop the scan.
C5_FirstResolvingMappingWins ==
    (CleanResolve /\ Hits(last.call) # {})
    => IsDocumentOfFirstHit(last.call, last.result)

\* two mappings of namespace @F; only the later one's target is there
C5_Witness ==
    /\ CleanResolve
    /\ last.call.ref = RefFx
    /\ environment = FrameworkTable /\ additionalMappings = UserTable
    /\ F1 \notin files /\ PathToDocumentUri(F1) \notin DOMAIN last.call.docs0
    /\ Hits(last.call) = {3}
    /\ last.result > 0
    /\ heap[last.result].uri = PathToDocumentUri(F3)

\* C6: resolveByTwigPath returns undefined, does not throw and leaves the cached
\* documents as they were when no mapping matches the reference or no matching
\* mapping has a cached document or a template file at a searched location.
C6_UnresolvedIsUndefined ==
    (CleanResolve /\ Hits(last.call) = {})
    => /\ last.result = Undefined
       /\ documents = last.call.docs0

\* mappings match, a framework root is configured, and nothing is at either location
C6_Witness ==
    /\ CleanResolve /\ Hits(last.call) = {}
    /\ last.call.ref = RefFx
    /\ composerRoot # <<>>
    /\ \E i \in 1..Len(last.call.maps) : last.call.maps[i].namespace = NsF
    /\ last.call.pc = "probe2"
    /\ last.result = Undefined

\* C7: at every await boundary each cached Document has a tree and locals made from
\* its current text.
C7_CachedDocumentsAreCoherent ==
    \A c \in DOMAIN documents :
        LET doc == heap[documents[c]] IN
        /\ doc.tree.src = doc.text
        /\ doc.locals.src = doc.text

\* C8: when updateText(u, t) returns, the returned Document is the one cached under u,
\* its text is t, its tree and locals are those of t, and a document cached under u
\* before is the instance returned.
C8_UpdateTextReloads ==
    (Returned({"updateText"}) /\ last.result # Threw)
    => LET d == last.result
           c == toDocumentUri(last.call.uri)
           t == last.call.text
       IN  /\ c \in DOMAIN documents /\ documents[c] = d
           /\ heap[d].text = t
           /\ heap[d].tree = Parse(t)
           /\ heap[d].locals.src = t
           /\ c \in DOMAIN last.call.docs0 => d = last.call.docs0[c]

\* C9: resolveImport returns the document for '_self', undefined when no import of
\* that name is among the document-level imports and those of the scope at pos, the
\* document when the import found has no path, and otherwise what resolveByTwigPath
\* returns for the import's path.
C9_ResolveImportResult ==
    (Returned({"resolveImport"}) /\ last.call.clean /\ last.call.argDoc \in Range(documents))
    => LET d == last.call.argDoc
           collected == Collect(heap[d].tree)
           scoped == IF last.call.pos # NoPos
                     THEN ScopeImportsAt([locals |-> collected], last.call.pos) ELSE <<>>
           found == FindImport(collected.imports
                               \o (IF scoped # <<>> THEN scoped[1] ELSE <<>>),
                               last.call.name)
       IN  IF last.call.name = "_self" THEN last.result = d
           ELSE IF found = <<>> THEN last.result = Undefined
           ELSE IF found[1].path = <<>> THEN last.result = d
           ELSE /\ last.call.ref = found[1].path
                /\ IF Hits(last.call) = {} THEN last.result = Undefined
                   ELSE IsDocumentOfFirstHit(last.call, last.result)

\* a step that is not part of a setText: resolveImport, remove, the first step of
\* resolveByTwigPath, a get that returns the cached document, a refresh of an
\* uncached uri
FrameStep ==
    /\ last = NoStep
    /\ \/ last'.kind \in {"resolveImport", "remove", "resolveByTwigPath"}
       \/ last'.kind \in {"get", "refresh"} /\ last'.returned

\* C10: only setText changes a Document's content: the steps above leave the text,
\* tree and locals (the import list included) of every cached Document as they were.
C10_OnlySetTextChangesContent ==
    [][FrameStep => \A d \in Range(documents') : heap'[d] = heap[d]]_vars

\* C11: after remove(u) the cache has no entry for u, every other entry is the one
\* it was, the call returns nothing and does not throw; when u was absent the cache
\* is unchanged.
C11_RemoveEvictsOnlyU ==
    Returned({"remove"})
    => LET c == toDocumentUri(last.call.uri)
           before == last.call.docs0
       IN  /\ last.result = Undefined
           /\ last.call.uri \notin DOMAIN documents
           /\ c \notin DOMAIN documents
           /\ DOMAIN documents = DOMAIN before \ {c}
           /\ \A k \in DOMAIN documents : documents[k] = before[k]
           /\ c \notin DOMAIN before => documents = before

\* u was cached next to another document, and that one stays
C11_Witness ==
    /\ Returned({"remove"})
    /\ toDocumentUri(last.call.uri) \in DOMAIN last.call.docs0
    /\ documents # EmptyMap

\* C12: a refresh(u) that runs with no other call and no file change in between
\* leaves the map as it was; when u is cached it reads the file and the cached
\* instance then has the disk content as text, with the tree and locals of it; when
\* u is not cached it reads no file, creates no entry and returns without error.
C12_RefreshReloadsInPlace ==
    (Returned({"refresh"}) /\ last.call.clean)
    => LET c == toDocumentUri(last.call.uri)
           before == last.call.docs0
       IN  /\ documents = before
           /\ IF c \in DOMAIN before
              THEN /\ last.call.read
                   /\ last.call.doc = before[c]
                   /\ last.result # Threw =>
                        LET doc == heap[documents[c]] IN
                        /\ doc.text = DiskText(documentUriToFsPath(c))
                        /\ doc.tree = Parse(doc.text)
                        /\ doc.locals = Collect(doc.tree)
              ELSE /\ ~last.call.read
                   /\ last.result = Undefined

\* the document had text 'A' from a get with text; the refresh replaced it
C12_Witness ==
    /\ Returned({"refresh"}) /\ last.call.clean
    /\ last.result # Threw
    /\ last.call.pin # <<>>
    /\ last.call.pin[1].text = "A"
    /\ toDocumentUri(last.call.uri) \in DOMAIN documents
    /\ documents[toDocumentUri(last.call.uri)] = last.call.pin[1].doc
    /\ heap[last.call.pin[1].doc].text = DiskText(F1)

\* the step leaves the map and the content of every cached Document as they were
CacheUntouched ==
    /\ documents' = documents
    /\ \A d \in Range(documents) : heap'[d] = heap[d]

\* C13: only the file read inside setText makes a call reject; the step that starts
\* the read and the step in which the read fails leave the map and every cached
\* Document's text, tree and locals as they were, so that a get of an uncached uri
\* adds no entry and a refresh of a cached document changes nothing of it.
C13_FailedReadLeavesCache ==
    [][/\ (last = NoStep /\ last'.returned /\ last'.result = Threw)
          => /\ last'.kind = "readFileDone"
             /\ CacheUntouched
             /\ last'.call.clean => documents' = last'.call.docs0
       /\ (\E t \in Tasks : tasks[t].pc # "read" /\ tasks'[t].pc = "read")
          => CacheUntouched]_vars

\* the file of a cached document is gone and refresh rejects
C13_Witness ==
    /\ Returned({"refresh"})
    /\ last.result = Threw
    /\ toDocumentUri(last.call.uri) \in DOMAIN documents
    /\ heap[documents[toDocumentUri(last.call.uri)]].text = "A"

\* the two locations of one mapping
WorkspaceLocation(m, ref) == PathResolve(<<workspaceFolderPath, IncludePath(m, ref)>>)
RootLocation(m, ref) == PathResolve(<<workspaceFolderPath, composerRoot, IncludePath(m, ref)>>)

\* j is the first mapping after i that matches the reference
NextMatch(call, i, j) ==
    /\ j \in (i + 1)..Len(call.maps)
    /\ StartsWith(call.ref, call.maps[j].namespace)
    /\ \A k \in (i + 1)..(j - 1) : ~StartsWith(call.ref, call.maps[k].namespace)

\* the step returns the document cached at location p, and nothing else happens
ReturnsCached(p) ==
    /\ PathToDocumentUri(p) \in DOMAIN documents
    /\ last'.result = documents[PathToDocumentUri(p)]
    /\ documents' = documents

\* the workspace-root location on disk has just been found empty by task a
WorkspaceMissed(a) ==
    /\ a.pc = "probe1"
    /\ a.path = WorkspaceLocation(a.maps[a.idx], a.ref)
    /\ a.path \notin files
    /\ PathToDocumentUri(a.path) \notin DOMAIN documents

\* C19: within one matching mapping the locations are consulted in the order
\* workspace-root location in the cache (a hit returns at once, with no probe of
\* the disk), workspace-root location on disk, and only after both missed and with
\* a framework root configured, framework-root location in the cache and then on
\* disk; without a framework root that location is never consulted.
C19_LocationOrder ==
    [][\A t \in Tasks :
         LET a == tasks[t]
             b == tasks'[t]
         IN  \* the disk is probed at the workspace-root location only after the cache missed
             /\ (b.pc = "probe1" /\ (a.pc # "probe1" \/ a.idx # b.idx))
                => /\ b.path = WorkspaceLocation(b.maps[b.idx], b.ref)
                   /\ PathToDocumentUri(b.path) \notin DOMAIN documents
                   /\ NextMatch(b, a.idx, b.idx)
             \* the disk is probed at the framework-root location only after the
             \* workspace-root location missed twice and the cache missed there too
             /\ (b.pc = "probe2" /\ a.pc # "probe2")
                => /\ WorkspaceMissed(a)
                   /\ composerRoot # <<>>
                   /\ b.idx = a.idx
                   /\ b.path = RootLocation(a.maps[a.idx], a.ref)
                   /\ PathToDocumentUri(b.path) \notin DOMAIN documents
             \* a document is returned from the cache by the step that found it
             /\ (/\ last = NoStep /\ last'.returned /\ last'.result > 0
                 /\ last'.kind = "resolveByTwigPath" /\ a.pc = "idle" /\ t = FreeTask)
                => \E j \in 1..Len(last'.call.maps) :
                      /\ NextMatch(last'.call, 0, j)
                      /\ ReturnsCached(WorkspaceLocation(last'.call.maps[j], last'.call.ref))
             /\ (/\ last = NoStep /\ last'.returned /\ last'.result > 0
                 /\ last'.kind = "resolveTemplateDone" /\ a.pc \in {"probe1", "probe2"}
                 /\ b.pc = "idle")
                => \/ /\ WorkspaceMissed(a)
                      /\ composerRoot # <<>>
                      /\ ReturnsCached(RootLocation(a.maps[a.idx], a.ref))
                   \/ \E j \in 1..Len(a.maps) :
                         /\ NextMatch(a, a.idx, j)
                         /\ ReturnsCached(WorkspaceLocation(a.maps[j], a.ref))]_vars

\* the template under the workspace root is neither cached nor on disk, and the
\* document cached at the framework-root location is returned though its file is gone
C19_Witness ==
    /\ Returned({"resolveByTwigPath"})
    /\ last.kind = "resolveTemplateDone"
    /\ last.call.pc = "probe1"
    /\ composerRoot = <<"a">>
    /\ last.result > 0
    /\ heap[last.result].uri = PathToDocumentUri(F3)
    /\ F3 \notin files /\ F1 \notin files

\* the imports of that name among a list
Named(imports, name) == { i \in 1..Len(imports) : imports[i].name = name }

\* the step of resolveImport(d, name, pos) that has looked the name up, for a name
\* imported both at the level of d and in the scope at pos
CollidingLookup ==
    /\ last.kind = "resolveImport"
    /\ last.call.pos # NoPos
    /\ LET collected == Collect(heap[last.call.argDoc].tree)
           scoped == ScopeImportsAt([locals |-> collected], last.call.pos)
       IN  /\ Named(collected.imports, last.call.name) # {}
           /\ scoped # <<>>
           /\ Named(scoped[1], last.call.name) # {}

\* C20: when the alias is imported both at document level and in the scope at pos,
\* resolveImport goes on with the document-level import, on the first call and on
\* every later call for the same document.
C20_DocumentLevelImportWins ==
    CollidingLookup
    => LET collected == Collect(heap[last.call.argDoc].tree)
           first == CHOOSE i \in Named(collected.imports, last.call.name) :
                       \A j \in Named(collected.imports, last.call.name) : i <= j
       IN  last.call.ref = collected.imports[first].path

\* a second call with a position on the same document, whose list already holds
\* the scoped imports the first call appended
C20_Witness ==
    /\ CollidingLookup
    /\ last.call.name = "m"
    /\ Len(heap[last.call.argDoc].locals.imports) = 3
    /\ ScopedImports(heap[last.call.argDoc].text)[1].path = RefX
    /\ last.call.ref = RefFx

\* C23: every key of the documents map is canonical, the Document under a key has
\* that key as its uri, its text is not null, and it has been loaded: it has the
\* tree and the locals of some text.  A Document still in its first load is not in
\* the map.
C23_CachedDocumentsAreLoaded ==
    /\ \A k \in DOMAIN documents :
          /\ toDocumentUri(k) = k
          /\ heap[documents[k]].uri = k
          /\ heap[documents[k]].text # NullText
          /\ heap[documents[k]].tree # NoTree
          /\ heap[documents[k]].locals # NoLocals
    /\ \A d \in 1..MaxDocs :
          heap[d].text = NullText => d \notin Range(documents)

\* a Document made for the other spelling of a cached location is in its first load
\* and not in the map, which holds the Document loaded before
C23_Witness ==
    /\ U1 \in DOMAIN documents
    /\ \E t \in Tasks :
          /\ tasks[t].pc = "read"
          /\ tasks[t].cont = "add"
          /\ tasks[t].uri = U1alt
          /\ heap[tasks[t].doc].text = NullText
          /\ tasks[t].doc \notin Range(documents)

\* C24: with no remove in between, every caller of get, updateText and
\* resolveByTwigPath on one URI receives the instance stored in the cache: a call
\* that returns a Document returns the one the map holds for its uri, and no step
\* puts another instance in place of one the map holds.
C24_OneInstancePerUri ==
    [][/\ \A k \in DOMAIN documents :
             k \in DOMAIN documents' => documents'[k] = documents[k]
       /\ (/\ last = NoStep /\ last'.returned /\ last'.result > 0
           /\ last'.call.op \in {"get", "updateText"}
           /\ toDocumentUri(last'.call.uri) \in DOMAIN documents')
          => documents'[toDocumentUri(last'.call.uri)] = last'.result]_vars

\* task t finishes an add and stores its Document under c
Inserts(t, c) ==
    /\ tasks[t].pc = "collect" /\ tasks[t].cont = "add"
    /\ tasks'[t].pc = "idle"
    /\ heap[tasks[t].doc].uri = c
    /\ c \in DOMAIN documents'
    /\ documents'[c] = tasks[t].doc

\* C25: after remove(u) has evicted a document, u stays absent until a get,
\* updateText or resolveByTwigPath for u is started: a get or updateText that was
\* already loading u when the remove ran does not put u back when it finishes.
\* (evicted[u] holds the evicted instance until the next get or updateText of u
\* starts or the entry of u changes.)
C25_RemovedStaysAbsent ==
    [][\A t \in Tasks, c \in CanonicalClientUris :
         (/\ tasks[t].op \in {"get", "updateText"}
          /\ toDocumentUri(tasks[t].uri) = c
          /\ c \notin DOMAIN documents
          /\ Inserts(t, c))
         => evicted[c] = 0]_vars

\* C26: once all overlapping updateText, get and refresh calls on a cached URI have
\* completed, the locals of its Document are the symbol collection of its final
\* text and tree.
C26_LocalsOfFinalText ==
    (Quiet /\ last = NoStep)
    => \A k \in DOMAIN documents :
          LET d == heap[documents[k]] IN
          /\ d.tree = Parse(d.text)
          /\ d.locals = Collect(d.tree)

\* C27: resolveByTwigPath never replaces or reloads a cached Document: when the
\* Document it returns has a uri that was a key of the map before the call
\* returned, it is the instance the map held, with the text it had.
C27_ResolveKeepsCachedDocument ==
    [][(/\ last = NoStep /\ last'.returned /\ last'.result > 0
        /\ last'.call.op = "resolveByTwigPath"
        /\ heap'[last'.result].uri \in DOMAIN documents)
       => LET k == heap'[last'.result].uri IN
          /\ last'.result = documents[k]
          /\ documents'[k] = documents[k]
          /\ heap'[documents[k]].text = heap[documents[k]].text]_vars

\* C28: get addresses the same entry for every spelling of a URI: a get or updateText
\* of u that began while a Document was cached for the canonical form of u, with no
\* other call in between, returns that instance and leaves it in the map.
C28_SpellingsShareEntry ==
    (/\ Returned({"get", "updateText"})
     /\ last.call.clean
     /\ last.result # Threw
     /\ toDocumentUri(last.call.uri) \in DOMAIN last.call.docs0)
    => LET c == toDocumentUri(last.call.uri) IN
       /\ last.result = last.call.docs0[c]
       /\ c \in DOMAIN documents /\ documents[c] = last.call.docs0[c]

-----------------------------------------------------------------------------
(* The path functions on their own: normalizeDirectoryPath applied to raw     *)
(* directories under every choice of the directories present on disk.         *)

\* raw directories as a framework or a user reports them:
\* t, v\t, /t, /v\t, //t, /w/t, s, /s, \w\t, /wx/t
RawDirectories ==
    { <<"t">>,
      <<"v", "\\", "t">>,
      <<"/", "t">>,
      <<"/", "v", "\\", "t">>,
      <<"/", "/", "t">>,
      <<"/", "w", "/", "t">>,
      <<"s">>,
      <<"/", "s">>,
      <<"\\", "w", "\\", "t">>,
      <<"/", "w", "x", "/", "t">> }

\* the directories that may be present: /t, /w/t, /w/a/t, /w/v/t, /w/s, /w/a/s, /wx/t
DirectoryUniverse ==
    { <<"/", "t">>,
      <<"/", "w", "/", "t">>,
      <<"/", "w", "/", "a", "/", "t">>,
      <<"/", "w", "/", "v", "/", "t">>,
      <<"/", "w", "/", "s">>,
      <<"/", "w", "/", "a", "/", "s">>,
      <<"/", "w", "x", "/", "t">> }

\* frameworkRoot: undefined, or 'a'
FrameworkRoots == { <<>>, <<"a">> }

InitPaths ==
    /\ environment = <<>>
    /\ typeResolver = "null"
    /\ composerRoot = <<>>
    /\ additionalMappings = <<>>
    /\ normalizedMappingsCache = <<>>
    /\ documents = EmptyMap
    /\ heap = [d \in 1..MaxDocs |-> Blank]
    /\ nextId = 1
    /\ files = {}
    /\ dirs \in SUBSET DirectoryUniverse
    /\ tasks = [t \in Tasks |-> IdleTask]
    /\ last = NoStep
    /\ pinned = [u \in CanonicalClientUris |-> <<>>]
    /\ evicted = [u \in CanonicalClientUris |-> 0]
    /\ tableReads = <<>>
    /\ applied = NoApplication
    /\ handlers = [h \in Handlers |-> IdleHandler]
    /\ notified = NoSettings

\* normalizeDirectoryPath(directory, workspaceFolderPath, frameworkRoot), and the
\* function applied once more to what it returned
NormalizeApplied(directory, frameworkRoot) ==
    /\ \E r \in {NormalizeDirectory(directory, workspaceFolderPath, frameworkRoot)} :
          applied' = [NoApplication EXCEPT
                        !.fn = "normalizeDirectoryPath",
                        !.arg = directory, !.root = frameworkRoot,
                        !.result = r.path, !.probes = r.probes,
                        !.again = normalizeDirectoryPath(r.path, workspaceFolderPath,
                                                         frameworkRoot)]
    /\ UNCHANGED <<environment, typeResolver, composerRoot, additionalMappings,
                   normalizedMappingsCache, documents, heap, nextId, files, dirs,
                   tasks, last, pinned, evicted, tableReads, handlers, notified>>

-----------------------------------------------------------------------------
(* extractFrameworkRoot: the framework root in a console path '<root>/bin/console' *)

EndsWith(s, p) == Len(p) <= Len(s) /\ SubSeq(s, Len(s) - Len(p) + 1, Len(s)) = p

BinConsole == <<"b", "i", "n", "/", "c", "o", "n", "s", "o", "l", "e">>

\* s without one trailing '/'
WithoutTrailingSlash(s) ==
    IF s # <<>> /\ s[Len(s)] = "/" THEN SubSeq(s, 1, Len(s) - 1) ELSE s

\* s without a leading './' and without a trailing '/.'
WithoutDotSlash(s) ==
    LET a == IF StartsWith(s, <<".", "/">>) THEN Slice(s, 2) ELSE s
    IN  IF EndsWith(a, <<"/", ".">>) THEN SubSeq(a, 1, Len(a) - 2) ELSE a

\* the root of a path whose separators are forward slashes: <<>> is undefined
ExtractFrom(normalized) ==
    IF ~EndsWith(normalized, BinConsole) THEN <<>>
    ELSE LET root == WithoutTrailingSlash(
                        SubSeq(normalized, 1, Len(normalized) - Len(BinConsole)))
         IN  IF root = <<>> \/ root = <<".">> THEN <<>>
             ELSE << WithoutDotSlash(root) >>

\* an extractFrameworkRoot that takes the path as it is written
ExtractWithoutNormalizing(consolePath) == ExtractFrom(consolePath)

extractFrameworkRoot(consolePath) == ExtractFrom(ReplaceBackslashes(consolePath))

\* the values of twiggy.symfonyConsolePath
ConsolePaths ==
    { <<"b", "i", "n", "/", "c", "o", "n", "s", "o", "l", "e">>,
      <<".", "/", "b", "i", "n", "/", "c", "o", "n", "s", "o", "l", "e">>,
      <<"a", "p", "p", "/", "b", "i", "n", "/", "c", "o", "n", "s", "o", "l", "e">>,
      <<"a", "p", "p", "s", "/", "m", "a", "i", "n", "/", "b", "i", "n", "/", "c", "o", "n", "s", "o", "l", "e">>,
      <<"a", "p", "p", "\\", "b", "i", "n", "\\", "c", "o", "n", "s", "o", "l", "e">>,
      <<"a", "p", "p", "s", "\\", "m", "a", "i", "n", "/", "b", "i", "n", "/", "c", "o", "n", "s", "o", "l", "e">>,
      <<>>,
      <<"c", "o", "n", "s", "o", "l", "e", ".", "p", "h", "p">>,
      <<".", "/", "a", "p", "p", "/", "b", "i", "n", "/", "c", "o", "n", "s", "o", "l", "e">> }

ExtractApplied(consolePath) ==
    /\ applied' = [NoApplication EXCEPT !.fn = "extractFrameworkRoot", !.arg = consolePath,
                                         !.extracted = extractFrameworkRoot(consolePath)]
    /\ UNCHANGED <<environment, typeResolver, composerRoot, additionalMappings,
                   normalizedMappingsCache, documents, heap, nextId, files, dirs,
                   tasks, last, pinned, evicted, tableReads, handlers, notified>>

\* the namespaces, directories and references of the mappings one loop step is applied to
TableNamespaces == { <<>>, NsF, <<"@", "F", "B">> }
TableDirectories == { <<"t">>, <<"/", "a", "/", "t">>, <<".", ".", "/", "t">>, <<"t", "$", "$">> }
TwigPaths == { RefX, RefFx, <<"@", "F", "B", "/", "x">>, <<"y", "/", "@", "F">> }

\* one step of the loop of resolveByTwigPath: whether the mapping is used, and its includePath
IncludeApplied(m, pathFromTwig) ==
    /\ applied' = [NoApplication EXCEPT
                     !.fn = "includePath", !.arg = pathFromTwig,
                     !.namespace = m.namespace, !.directory = m.directory,
                     !.used = StartsWith(pathFromTwig, m.namespace),
                     !.result = IF StartsWith(pathFromTwig, m.namespace)
                                THEN IncludePath(m, pathFromTwig) ELSE <<>>]
    /\ UNCHANGED <<environment, typeResolver, composerRoot, additionalMappings,
                   normalizedMappingsCache, documents, heap, nextId, files, dirs,
                   tasks, last, pinned, evicted, tableReads, handlers, notified>>

NextPaths ==
    \/ \E namespace \in TableNamespaces, directory \in TableDirectories,
          pathFromTwig \in TwigPaths :
          IncludeApplied(Mapping(namespace, directory), pathFromTwig)
    \/ \E directory \in RawDirectories, frameworkRoot \in FrameworkRoots :
          NormalizeApplied(directory, frameworkRoot)
    \/ \E consolePath \in ConsolePaths : ExtractApplied(consolePath)

SpecPaths == InitPaths /\ [][NextPaths]_vars

-----------------------------------------------------------------------------
(* ConfigurationManager.onDidChangeConfiguration: each notification runs a     *)
(* handler that configures the cache at once with the empty environment and,  *)
(* unless the framework is ignored, once more when the framework environment  *)
(* it awaits has been loaded.                                                  *)

\* the settings the client sends: framework, symfonyConsolePath, templatePaths
Settings ==
    { [framework |-> "symfony", symfonyConsolePath |-> <<"b", "i", "n", "/", "c", "o", "n", "s", "o", "l", "e">>,
       templatePaths |-> <<>>],
      [framework |-> "symfony", symfonyConsolePath |-> <<"a", "/", "b", "i", "n", "/", "c", "o", "n", "s", "o", "l", "e">>,
       templatePaths |-> << [namespace |-> <<"F">>, path |-> <<"/", "a", "/", "t">>] >>],
      [framework |-> "ignore", symfonyConsolePath |-> <<"b", "i", "n", "/", "c", "o", "n", "s", "o", "l", "e">>,
       templatePaths |-> << [namespace |-> <<"F">>, path |-> <<"/", "a", "/", "t">>] >>] }

\* #convertTemplatePathConfig
convertTemplatePathConfig(configs) ==
    [i \in 1..Len(configs) |->
        Mapping(IF StartsWith(configs[i].namespace, <<"@">>) \/ configs[i].namespace = <<>>
                THEN configs[i].namespace ELSE <<"@">> \o configs[i].namespace,
                configs[i].path)]

\* the template mappings the framework environment reports once refreshed
TwigEnvironmentOf(config) == FrameworkTable

\* frameworkRoot as configure takes it: <<>> is undefined
FrameworkRootOf(config) ==
    LET r == extractFrameworkRoot(config.symfonyConsolePath) IN
    IF r = <<>> THEN <<>> ELSE r[1]

FreeHandler == CHOOSE h \in Handlers : handlers[h].pc = "idle"

\* the handler up to its return or to the await of twigEnvironment.refresh
OnDidChangeConfiguration(config) ==
    /\ \E h \in Handlers : handlers[h].pc = "idle"
    /\ notified' = config
    /\ ConfigureCache(<<>>, <<>>, convertTemplatePathConfig(config.templatePaths))
    /\ handlers' = IF config.framework = "ignore" THEN handlers
                   ELSE [handlers EXCEPT ![FreeHandler] =
                            [pc |-> "refresh", config |-> config,
                             frameworkRoot |-> FrameworkRootOf(config)]]

\* twigEnvironment.refresh settles: the handler applies its settings and returns
RefreshDone(h) ==
    /\ handlers[h].pc = "refresh"
    /\ ConfigureCache(TwigEnvironmentOf(handlers[h].config), handlers[h].frameworkRoot,
                      convertTemplatePathConfig(handlers[h].config.templatePaths))
    /\ handlers' = [handlers EXCEPT ![h] = IdleHandler]
    /\ notified' = notified

InitConfig ==
    /\ environment = <<>>
    /\ typeResolver = "null"
    /\ composerRoot = <<>>
    /\ additionalMappings = <<>>
    /\ normalizedMappingsCache = <<>>
    /\ documents = EmptyMap
    /\ heap = [d \in 1..MaxDocs |-> Blank]
    /\ nextId = 1
    /\ files = FilePaths
    /\ dirs = Directories
    /\ tasks = [t \in Tasks |-> IdleTask]
    /\ last = NoStep
    /\ pinned = [u \in CanonicalClientUris |-> <<>>]
    /\ evicted = [u \in CanonicalClientUris |-> 0]
    /\ tableReads = <<>>
    /\ applied = NoApplication
    /\ handlers = [h \in Handlers |-> IdleHandler]
    /\ notified = NoSettings

(* Notifications arrive at any moment; references are resolved one at a time. *)
NextConfig ==
    \/ \E config \in Settings : OnDidChangeConfiguration(config)
    \/ \E h \in Handlers : RefreshDone(h)
    \/ Quiet /\ \E ref \in References : ResolveByTwigPath(ref)
    \/ \E t \in Tasks : ReadFileDone(t)
    \/ \E t \in Tasks : CollectDone(t)
    \/ \E t \in Tasks : ResolveTemplateDone(t)
    \/ CallerResumes

SpecConfig == InitConfig /\ [][NextConfig]_vars

\* a string with every backslash written as a forward slash
ForwardSlashes(s) == [i \in 1..Len(s) |-> IF s[i] = "\\" THEN "/" ELSE s[i]]

\* normalizeDirectoryPath has just been applied
Normalized == applied.fn = "normalizeDirectoryPath"

\* C14: a directory with no leading separator comes back unchanged but for its
\* backslashes, which become forward slashes, whenever it exists under the workspace
\* root or no framework root is supplied.
C14_RelativeDirectoryUnchanged ==
    (/\ Normalized
     /\ applied.arg[1] \notin {"/", "\\"}
     /\ \/ applied.root = <<>>
        \/ PathJoin(<<workspaceFolderPath, ForwardSlashes(applied.arg)>>) \in dirs)
    => applied.result = ForwardSlashes(applied.arg)

\* 'v\t' with a framework root supplied, /w/v/t present: 'v/t'
C14_Witness ==
    /\ Normalized
    /\ applied.arg = <<"v", "\\", "t">>
    /\ applied.root = <<"a">>
    /\ <<"/", "w", "/", "v", "/", "t">> \in dirs
    /\ applied.result = <<"v", "/", "t">>

\* C15: a directory with a leading separator that is not on disk as an absolute path
\* is probed in a fixed order: workspace/stripped present gives stripped; else, with a
\* framework root, workspace/root/stripped present gives root/stripped; else stripped,
\* present or not.  stripped is the input with forward slashes and without its first
\* character.
C15_LeadingSeparatorFallbacks ==
    LET n == ForwardSlashes(applied.arg)
        stripped == SubSeq(n, 2, Len(n))
    IN  (Normalized /\ n[1] = "/" /\ PathResolve(<<n>>) \notin dirs)
        => IF PathJoin(<<workspaceFolderPath, stripped>>) \in dirs
           THEN applied.result = stripped /\ applied.probes = 2
           ELSE IF applied.root # <<>>
                   /\ PathJoin(<<workspaceFolderPath, applied.root, stripped>>) \in dirs
           THEN applied.result = PathJoin(<<applied.root, stripped>>) /\ applied.probes = 3
           ELSE /\ applied.result = stripped
                /\ applied.probes = IF applied.root # <<>> THEN 3 ELSE 2

\* '/t' with framework root 'a', /t missing, /w/t and /w/a/t both present: 't'
C15_Witness ==
    /\ Normalized
    /\ applied.arg = <<"/", "t">>
    /\ applied.root = <<"a">>
    /\ <<"/", "t">> \notin dirs /\ <<"/", "w", "/", "t">> \in dirs /\ <<"/", "w", "/", "a", "/", "t">> \in dirs
    /\ applied.result = <<"t">>

\* C16: normalizeDirectoryPath is idempotent: applied to its own result, with the same
\* workspace root, framework root and directories on disk, it returns that result.
C16_NormalizeIdempotent ==
    Normalized => applied.again = applied.result

\* what the tests of the source expect of extractFrameworkRoot: path, result
ExtractTests ==
    { << <<"b", "i", "n", "/", "c", "o", "n", "s", "o", "l", "e">>,
         <<>> >>,
      << <<".", "/", "b", "i", "n", "/", "c", "o", "n", "s", "o", "l", "e">>,
         <<>> >>,
      << <<"a", "p", "p", "/", "b", "i", "n", "/", "c", "o", "n", "s", "o", "l", "e">>,
         << <<"a", "p", "p">> >> >>,
      << <<"a", "p", "p", "s", "/", "m", "a", "i", "n", "/", "b", "i", "n", "/", "c", "o", "n", "s", "o", "l", "e">>,
         << <<"a", "p", "p", "s", "/", "m", "a", "i", "n">> >> >>,
      << <<"a", "p", "p", "\\", "b", "i", "n", "\\", "c", "o", "n", "s", "o", "l", "e">>,
         << <<"a", "p", "p">> >> >>,
      << <<"a", "p", "p", "s", "\\", "m", "a", "i", "n", "/", "b", "i", "n", "/", "c", "o", "n", "s", "o", "l", "e">>,
         << <<"a", "p", "p", "s", "/", "m", "a", "i", "n">> >> >>,
      << <<>>,
         <<>> >>,
      << <<"c", "o", "n", "s", "o", "l", "e", ".", "p", "h", "p">>,
         <<>> >>,
      << <<".", "/", "a", "p", "p", "/", "b", "i", "n", "/", "c", "o", "n", "s", "o", "l", "e">>,
         << <<"a", "p", "p">> >> >> }

IsPrefix(p, s) == \E k \in 0..Len(s) : SubSeq(s, 1, k) = p

IncludeStep == applied.fn = "includePath"

\* C18: a mapping is used exactly when the reference starts with its namespace as
\* plain text; its include path is join(directory, reference) for the empty
\* namespace and otherwise the directory followed by the reference without that
\* leading namespace.
C18_PrefixMatchAndIncludePath ==
    IncludeStep
    => /\ applied.used <=> IsPrefix(applied.namespace, applied.arg)
       /\ applied.used
          => applied.result =
               IF applied.namespace = <<>>
               THEN PathJoin(<<applied.directory, applied.arg>>)
               ELSE applied.directory
                    \o SubSeq(applied.arg, Len(applied.namespace) + 1, Len(applied.arg))

C22_RelativeDirectoryUnderRoot ==
    LET r == ForwardSlashes(applied.arg)
        underRoot == /\ applied.root # <<>>
                     /\ PathJoin(<<workspaceFolderPath, r>>) \notin dirs
                     /\ PathJoin(<<workspaceFolderPath, applied.root, r>>) \in dirs
    IN  (Normalized /\ applied.arg[1] \notin {"/", "\\"})
        => applied.result = IF underRoot THEN applied.root \o <<"/">> \o r ELSE r

\* 's' with framework root 'a', /w/s missing and /w/a/s present: 'a/s'
C22_Witness ==
    /\ Normalized
    /\ applied.arg = <<"s">>
    /\ applied.root = <<"a">>
    /\ <<"/", "w", "/", "s">> \notin dirs /\ <<"/", "w", "/", "a", "/", "s">> \in dirs
    /\ applied.result = <<"a", "/", "s">>

\* no configuration handler is in flight
HandlersDone == \A h \in Handlers : handlers[h].pc = "idle"

\* C29: when all configuration handlers have finished, the cache holds the
\* environment, framework root and user mappings of the most recent notification,
\* and a cached mapping table is the one computed from that configuration.
C29_LatestConfigurationWins ==
    (HandlersDone /\ notified # NoSettings)
    => LET ignored == notified.framework = "ignore"
           env == IF ignored THEN <<>> ELSE TwigEnvironmentOf(notified)
           root == IF ignored THEN <<>> ELSE FrameworkRootOf(notified)
           user == convertTemplatePathConfig(notified.templatePaths)
           all == env \o user
       IN  /\ environment = env
           /\ composerRoot = root
           /\ additionalMappings = user
           /\ normalizedMappingsCache # <<>>
              => normalizedMappingsCache[1] =
                   [i \in 1..Len(all) |->
                      Mapping(all[i].namespace,
                              normalizeDirectoryPath(all[i].directory, workspaceFolderPath, root))]

=============================================================================
